---- MODULE Spec2Model ----
(***************************************************************************)
(* Model of the joystick_servo namespace (src/main.ts): two joystick axes  *)
(* and a push button drive two servo angles from a cooperative forever     *)
(* loop.  The module-level variables of the namespace are the state; every *)
(* exported function and the body of the forever loop is one action.       *)
(*                                                                         *)
(* Not modelled: _debugMode and the serial output (they never influence    *)
(* the angles, the writes or the handlers), the pin assignments, and the   *)
(* getters getXAngle / getYAngle (pure reads of xAngle / yAngle).          *)
(***************************************************************************)
EXTENDS Integers, Sequences, FiniteSets, TLC

\* ------------------------------------------------------------------ bounds
\* No tick starts after MaxTime on the clock (input.runningTime, in ms) when
\* API calls interleave with the loop, and none after MaxLoopTime when the
\* initialised loop runs on its own.
MaxTime == 300
MaxLoopTime == 450
MaxHoldTime == 1100
\* Number of API calls other than init that one behaviour may make.
MaxCalls == 2
\* Clock value when the program starts to run user code.
BootTime == 50
\* The counter of consecutive pressed gate-passing ticks saturates here.
HeldCap == 2

\* ------------------------------------------------------- program constants
GateInterval == 100
SettleDelay == 100
IdleDelay == 50
DefaultMinAngle == 0
DefaultMaxAngle == 180
DefaultInitAngle == 90
DefaultStep == 15

\* ------------------------------------------------------------ input spaces
\* Raw analog samples (0..1023 scale) one tick may read on an axis: below the
\* default minimum threshold, between it and the band, inside both default
\* bands, inside the default Y band only, and above both.
Readings == {200, 500, 770, 790, 900}
\* Digital levels of the pulled-up button pin: 0 is pressed.
Levels == {0, 1}
\* Threshold sextuples passed to setJoystickThresholds:
\* <<xMaxMin, xMaxMax, xMin, yMaxMin, yMaxMax, yMin>>.
DefaultThresholds == <<760, 780, 250, 760, 800, 250>>
ThresholdArgs == {DefaultThresholds, <<760, 780, 1000, 760, 800, 1000>>}
\* Limit quadruples passed to setServoLimits: <<min, max, init, step>>.
DefaultLimits == <<DefaultMinAngle, DefaultMaxAngle, DefaultInitAngle, DefaultStep>>
LimitArgs == {DefaultLimits, <<30, 150, 60, 30>>, <<60, 100, 100, 45>>}
\* Argument pairs passed to setServoAngles.
AngleArgs == {<<170, 10>>, <<90, 200>>}
\* Handlers user code registers.  "hReset" is the README's button handler,
\* which calls resetServos(); "hNop" is a handler that touches no state.
None == "null"
ButtonHandlers == {"hReset", "hNop"}
AngleHandlers == {"g1", "g2"}

VARIABLES
    servoMinAngle, servoMaxAngle, servoInitAngle, servoStep,
    xMaxThresholdMax, xMaxThresholdMin, xMinThreshold,
    yMaxThresholdMax, yMaxThresholdMin, yMinThreshold,
    xAngle, yAngle, lastXAngle, lastYAngle,
    updated, lastActionTime,
    buttonPressedHandler, angleChangedHandler,
    started,    \* the forever loop has been registered by init
    settling,   \* init is suspended in its pause(100) between the two writes
    now,        \* input.runningTime()
    servo,      \* angle last written to each servo pin ("none" before any)
    \* ---- observation of the last operation (history variables)
    displaced,  \* the handler each slot held before its last registration
    op,         \* the operation and its inputs (a tick that fails the gate
                \* never looks at its two axis samples: they are recorded as 0)
    pre,        \* program state right before it
    stepped,    \* <<x, y>> right after the two axis decisions of a tick
    writes,     \* servo writes it issued, in order: <<axis, angle>>
    fired,      \* handler invocations it made, in order
    pending,    \* setServoLimits ran and no actuation pass has run since
    scn,        \* progress of the 770/770/200 scenario after init, or -1
    held,       \* consecutive gate-passing ticks that read the button pressed
    calls       \* API calls made so far

vars == <<servoMinAngle, servoMaxAngle, servoInitAngle, servoStep,
          xMaxThresholdMax, xMaxThresholdMin, xMinThreshold,
          yMaxThresholdMax, yMaxThresholdMin, yMinThreshold,
          xAngle, yAngle, lastXAngle, lastYAngle,
          updated, lastActionTime,
          buttonPressedHandler, angleChangedHandler,
          started, settling, now, servo,
          displaced, op, pre, stepped, writes, fired, pending, scn, held, calls>>

limitVars == <<servoMinAngle, servoMaxAngle, servoInitAngle, servoStep>>
thresholdVars == <<xMaxThresholdMax, xMaxThresholdMin, xMinThreshold,
                   yMaxThresholdMax, yMaxThresholdMin, yMinThreshold>>
handlerVars == <<buttonPressedHandler, angleChangedHandler>>

\* ----------------------------------------------------------------- helpers
MathMin(a, b) == IF a < b THEN a ELSE b
MathMax(a, b) == IF a > b THEN a ELSE b

\* Math.constrain(value, low, high)
ConstrainNoClamp(value, low, high) == value
Constrain(value, low, high) ==
    IF value < low THEN low ELSE IF value > high THEN high ELSE value

\* The angle part of the machine state that moveServos and the handlers act
\* on, with the writes and handler invocations made so far in the operation.
Machine(x, y, lx, ly, sv) ==
    [x |-> x, y |-> y, lastX |-> lx, lastY |-> ly, servo |-> sv,
     writes |-> <<>>, fired |-> <<>>]

Snapshot ==
    [x |-> xAngle, y |-> yAngle, lastX |-> lastXAngle, lastY |-> lastYAngle,
     lastActionTime |-> lastActionTime, pending |-> pending,
     slots |-> <<buttonPressedHandler, angleChangedHandler>>,
     setArgs |-> IF op.name = "setServoAngles" THEN op.args ELSE <<>>]

\* An operation, its arguments (a tick's are the samples <<x, y, button>>)
\* and the clock when it ran.
Op(name, args, t) == [name |-> name, args |-> args, t |-> t]


\* ------------------------------------------------ the decision of one axis
\* value > thMin && value <= thMax
InIncreaseBandNoUpper(value, thMin, thMax) == value > thMin
InIncreaseBand(value, thMin, thMax) == value > thMin /\ value <= thMax

\* value < minTh
BelowMin(value, minTh) == value < minTh

\* Math.min(angle + _servoStep, _servoMaxAngle)
StepUpNoClamp(angle) == angle + servoStep
StepUpWrongClamp(angle) == MathMax(angle + servoStep, servoMaxAngle)
StepUp(angle) == MathMin(angle + servoStep, servoMaxAngle)

\* Math.max(angle - _servoStep, _servoMinAngle)
StepDownNoClamp(angle) == angle - servoStep
StepDownWrongClamp(angle) == MathMin(angle - servoStep, servoMinAngle)
StepDown(angle) == MathMax(angle - servoStep, servoMinAngle)

\* if (in band) { increase; _updated = true } else if (below min) { decrease;
\* _updated = true }: the new angle and whether _updated was set.
AxisControl(angle, value, thMin, thMax, minTh) ==
    IF InIncreaseBand(value, thMin, thMax)
    THEN [angle |-> StepUp(angle), updated |-> TRUE]
    ELSE IF BelowMin(value, minTh)
         THEN [angle |-> StepDown(angle), updated |-> TRUE]
         ELSE [angle |-> angle, updated |-> FALSE]

\* currentTime - _lastActionTime > 100
GatePassesInclusive(currentTime, lastTime) == currentTime - lastTime >= GateInterval
GatePasses(currentTime, lastTime) == currentTime - lastTime > GateInterval

\* ------------------------------------------------------------- moveServos
MoveServosAlwaysWrite(m, ah) ==
    [m EXCEPT !.lastX = m.x, !.lastY = m.y,
              !.servo = [X |-> m.x, Y |-> m.y],
              !.writes = m.writes \o << <<"X", m.x>>, <<"Y", m.y>> >>]
MoveServosCompareFirst(m, ah) ==
    LET changed == m.x # m.lastX \/ m.y # m.lastY
        m2 == [m EXCEPT !.lastX = m.x, !.lastY = m.y,
                        !.servo = [X |-> IF m.x # m.lastX THEN m.x ELSE @.X,
                                   Y |-> IF m.y # m.lastY THEN m.y ELSE @.Y],
                        !.writes = @ \o (IF m.x # m.lastX THEN << <<"X", m.x>> >> ELSE <<>>)
                                     \o (IF m.y # m.lastY THEN << <<"Y", m.y>> >> ELSE <<>>)]
    IN  IF ah # None /\ changed
        THEN [m2 EXCEPT !.fired = Append(@, <<"angle", ah, m2.x, m2.y>>)]
        ELSE m2
MoveServosNoCommit(m, ah) ==
    LET m1 == IF m.x # m.lastX
              THEN [m EXCEPT !.servo = [@ EXCEPT !.X = m.x],
                             !.writes = Append(@, <<"X", m.x>>)]
              ELSE m
    IN  IF m1.y # m1.lastY
        THEN [m1 EXCEPT !.servo = [@ EXCEPT !.Y = m1.y],
                        !.writes = Append(@, <<"Y", m1.y>>)]
        ELSE m1
MoveServos(m, ah) ==
    LET m1 == IF m.x # m.lastX
              THEN [m EXCEPT !.lastX = m.x,
                             !.servo = [@ EXCEPT !.X = m.x],
                             !.writes = Append(@, <<"X", m.x>>)]
              ELSE m
        m2 == IF m1.y # m1.lastY
              THEN [m1 EXCEPT !.lastY = m1.y,
                              !.servo = [@ EXCEPT !.Y = m1.y],
                              !.writes = Append(@, <<"Y", m1.y>>)]
              ELSE m1
    IN  IF ah # None /\ (m2.x # m2.lastX \/ m2.y # m2.lastY)
        THEN [m2 EXCEPT !.fired = Append(@, <<"angle", ah, m2.x, m2.y>>)]
        ELSE m2

\* _xAngle = _servoInitAngle; _yAngle = _servoInitAngle
RecentreXOnly(m, initAngle) == [m EXCEPT !.x = initAngle]
RecentreCommitted(m, initAngle) ==
    [m EXCEPT !.x = initAngle, !.y = initAngle,
              !.lastX = initAngle, !.lastY = initAngle]
Recentre(m, initAngle) == [m EXCEPT !.x = initAngle, !.y = initAngle]

\* The body of resetServos.
ResetServosXOnly(m, ah) == MoveServos(RecentreXOnly(m, servoInitAngle), ah)
ResetServos(m, ah) == MoveServos(Recentre(m, servoInitAngle), ah)

\* The body of setServoAngles.
SetServoAngles(m, xArg, yArg, ah) ==
    MoveServos([m EXCEPT !.x = Constrain(xArg, servoMinAngle, servoMaxAngle),
                         !.y = Constrain(yArg, servoMinAngle, servoMaxAngle)],
               ah)

\* What setServoLimits does to the angles: _xAngle = _yAngle = initAngle.
LimitsRecentreAndMove(m, initAngle, ah) == MoveServos(Recentre(m, initAngle), ah)
LimitsRecentre(m, initAngle, ah) == Recentre(m, initAngle)

\* Running a registered button handler: "hReset" calls resetServos().
RunButtonHandler(h, m, ah) ==
    LET logged == [m EXCEPT !.fired = Append(@, <<"button", h>>)]
    IN  IF h = "hReset" THEN ResetServos(logged, ah) ELSE logged

\* if (buttonState === 0) { handler or default re-centring }
DefaultButtonXOnly(m) == RecentreXOnly(m, servoInitAngle)
DefaultButton(m) == Recentre(m, servoInitAngle)

ButtonControlAlsoDefault(bs, m, bh, ah) ==
    IF bs = 0
    THEN DefaultButton(IF bh # None THEN RunButtonHandler(bh, m, ah) ELSE m)
    ELSE m
ButtonControl(bs, m, bh, ah) ==
    IF bs = 0
    THEN IF bh # None THEN RunButtonHandler(bh, m, ah) ELSE DefaultButton(m)
    ELSE m

CurrentMachine == Machine(xAngle, yAngle, lastXAngle, lastYAngle, servo)

\* Writing a machine record back into the variables.
Commit(m) ==
    /\ xAngle' = m.x
    /\ yAngle' = m.y
    /\ lastXAngle' = m.lastX
    /\ lastYAngle' = m.lastY
    /\ servo' = m.servo
    /\ writes' = m.writes
    /\ fired' = m.fired

\* -------------------------------------------------------------------- Init
Init ==
    /\ servoMinAngle = DefaultMinAngle
    /\ servoMaxAngle = DefaultMaxAngle
    /\ servoInitAngle = DefaultInitAngle
    /\ servoStep = DefaultStep
    /\ xMaxThresholdMax = 780
    /\ xMaxThresholdMin = 760
    /\ xMinThreshold = 250
    /\ yMaxThresholdMax = 800
    /\ yMaxThresholdMin = 760
    /\ yMinThreshold = 250
    /\ xAngle = 90
    /\ yAngle = 90
    /\ lastXAngle = 90
    /\ lastYAngle = 90
    /\ updated = FALSE
    /\ lastActionTime = 0
    /\ buttonPressedHandler = None
    /\ angleChangedHandler = None
    /\ started = FALSE
    /\ settling = FALSE
    /\ now = BootTime
    /\ servo = [X |-> "none", Y |-> "none"]
    /\ op = Op("none", <<>>, 0)
    /\ pre = [x |-> 90, y |-> 90, lastX |-> 90, lastY |-> 90,
              lastActionTime |-> 0, pending |-> FALSE,
              slots |-> <<None, None>>, setArgs |-> <<>>]
    /\ stepped = <<90, 90>>
    /\ writes = <<>>
    /\ fired = <<>>
    /\ pending = FALSE
    /\ scn = -1
    /\ held = 0
    /\ calls = 0
    /\ displaced = [button |-> None, angle |-> None]

\* ----------------------------------------------------------------- actions
\* startMainLoop() is the last statement of init: the loop is registered
\* once init has resumed from its pause and written the Y servo.
LoopRegisteredEarly(phase) == TRUE
LoopRegistered(phase) == phase = "resumed"

\* init(...) up to its pause(100): both angles and both committed angles
\* become _servoInitAngle and the X servo is written.  The calling fiber is
\* suspended, so no other API call runs until init has resumed.
init ==
    /\ UNCHANGED displaced
    /\ ~started
    /\ ~settling
    /\ pre' = Snapshot
    /\ op' = Op("init", <<>>, now)
    /\ xAngle' = servoInitAngle
    /\ yAngle' = servoInitAngle
    /\ lastXAngle' = servoInitAngle
    /\ lastYAngle' = servoInitAngle
    /\ servo' = [servo EXCEPT !.X = servoInitAngle]
    /\ writes' = << <<"X", servoInitAngle>> >>
    /\ fired' = <<>>
    /\ settling' = TRUE
    /\ started' = LoopRegistered("paused")
    /\ pending' = FALSE
    /\ scn' = -1
    /\ stepped' = <<xAngle', yAngle'>>
    /\ UNCHANGED <<limitVars, thresholdVars, handlerVars, updated, lastActionTime,
                   now, held, calls>>

\* init(...) after its pause(100): the Y servo is written with _yAngle and
\* startMainLoop() registers the forever loop.
initResume ==
    /\ UNCHANGED displaced
    /\ settling
    /\ pre' = Snapshot
    /\ op' = Op("initResume", <<>>, now + SettleDelay)
    /\ servo' = [servo EXCEPT !.Y = yAngle]
    /\ writes' = << <<"Y", yAngle>> >>
    /\ fired' = <<>>
    /\ now' = now + SettleDelay
    /\ settling' = FALSE
    /\ started' = LoopRegistered("resumed")
    /\ scn' = IF <<servoMinAngle, servoMaxAngle, servoInitAngle, servoStep>> = DefaultLimits
                 /\ <<xMaxThresholdMin, xMaxThresholdMax, xMinThreshold,
                      yMaxThresholdMin, yMaxThresholdMax, yMinThreshold>> = DefaultThresholds
                 /\ <<xAngle, yAngle>> = <<servoInitAngle, servoInitAngle>>
              THEN 0 ELSE -1
    /\ stepped' = <<xAngle, yAngle>>
    /\ UNCHANGED <<limitVars, thresholdVars, handlerVars, xAngle, yAngle,
                   lastXAngle, lastYAngle, updated, lastActionTime, pending,
                   held, calls>>

setServoLimits ==
    /\ UNCHANGED displaced
    /\ calls < MaxCalls
    /\ ~settling
    /\ \E a \in LimitArgs :
        LET m == LimitsRecentre(CurrentMachine, a[3], angleChangedHandler)
        IN  /\ servoMinAngle' = a[1]
            /\ servoMaxAngle' = a[2]
            /\ servoInitAngle' = a[3]
            /\ servoStep' = a[4]
            /\ Commit(m)
            /\ op' = Op("setServoLimits", a, now)
    /\ pre' = Snapshot
    /\ pending' = TRUE
    /\ scn' = -1
    /\ stepped' = <<xAngle', yAngle'>>
    /\ calls' = calls + 1
    /\ UNCHANGED <<thresholdVars, handlerVars, updated, lastActionTime, started,
                   settling, now, held>>

setJoystickThresholds ==
    /\ UNCHANGED displaced
    /\ calls < MaxCalls
    /\ ~settling
    /\ \E a \in ThresholdArgs :
        /\ op' = Op("setJoystickThresholds", a, now)
        /\ xMaxThresholdMin' = a[1]
        /\ xMaxThresholdMax' = a[2]
        /\ xMinThreshold' = a[3]
        /\ yMaxThresholdMin' = a[4]
        /\ yMaxThresholdMax' = a[5]
        /\ yMinThreshold' = a[6]
    /\ pre' = Snapshot
    /\ writes' = <<>>
    /\ fired' = <<>>
    /\ scn' = -1
    /\ stepped' = <<xAngle, yAngle>>
    /\ calls' = calls + 1
    /\ UNCHANGED <<limitVars, handlerVars, xAngle, yAngle, lastXAngle, lastYAngle,
                   updated, lastActionTime, started, settling, now, servo, pending,
                   held>>

\* _buttonPressedHandler = handler; _angleChangedHandler = handler: a slot
\* holds one handler, the one registered last.
RegisterKeepFirst(slot, handler) == IF slot = None THEN handler ELSE slot
Register(slot, handler) == handler

onButtonPressed ==
    /\ calls < MaxCalls
    /\ ~settling
    /\ \E h \in ButtonHandlers :
        /\ buttonPressedHandler' = Register(buttonPressedHandler, h)
        /\ displaced' = [displaced EXCEPT !.button = buttonPressedHandler]
        /\ op' = Op("onButtonPressed", <<h>>, now)
    /\ pre' = Snapshot
    /\ writes' = <<>>
    /\ fired' = <<>>
    /\ scn' = -1
    /\ stepped' = <<xAngle, yAngle>>
    /\ calls' = calls + 1
    /\ UNCHANGED <<limitVars, thresholdVars, angleChangedHandler, xAngle, yAngle,
                   lastXAngle, lastYAngle, updated, lastActionTime, started,
                   settling, now, servo, pending, held>>

onAngleChanged ==
    /\ calls < MaxCalls
    /\ ~settling
    /\ \E g \in AngleHandlers :
        /\ angleChangedHandler' = Register(angleChangedHandler, g)
        /\ displaced' = [displaced EXCEPT !.angle = angleChangedHandler]
        /\ op' = Op("onAngleChanged", <<g>>, now)
    /\ pre' = Snapshot
    /\ writes' = <<>>
    /\ fired' = <<>>
    /\ scn' = -1
    /\ stepped' = <<xAngle, yAngle>>
    /\ calls' = calls + 1
    /\ UNCHANGED <<limitVars, thresholdVars, buttonPressedHandler, xAngle, yAngle,
                   lastXAngle, lastYAngle, updated, lastActionTime, started,
                   settling, now, servo, pending, held>>

setServoAngles ==
    /\ UNCHANGED displaced
    /\ calls < MaxCalls
    /\ ~settling
    /\ \E a \in AngleArgs :
        /\ Commit(SetServoAngles(CurrentMachine, a[1], a[2], angleChangedHandler))
        /\ op' = Op("setServoAngles", a, now)
    /\ pre' = Snapshot
    /\ pending' = FALSE
    /\ scn' = -1
    /\ stepped' = <<xAngle', yAngle'>>
    /\ calls' = calls + 1
    /\ UNCHANGED <<limitVars, thresholdVars, handlerVars, updated, lastActionTime,
                   started, settling, now, held>>

resetServos ==
    /\ UNCHANGED displaced
    /\ calls < MaxCalls
    /\ ~settling
    /\ Commit(ResetServos(CurrentMachine, angleChangedHandler))
    /\ op' = Op("resetServos", <<>>, now)
    /\ pre' = Snapshot
    /\ pending' = FALSE
    /\ scn' = -1
    /\ stepped' = <<xAngle', yAngle'>>
    /\ calls' = calls + 1
    /\ UNCHANGED <<limitVars, thresholdVars, handlerVars, updated, lastActionTime,
                   started, settling, now, held>>

\* The 770 / 770 / 200 reading sequence of the end-to-end scenario.
ScenarioX == <<770, 770, 200>>
ScenarioNext(xv, yv, bs) ==
    IF scn \in 0..2 /\ xv = ScenarioX[scn + 1] /\ yv \in {500, 900} /\ bs = 1
    THEN scn + 1 ELSE -1

\* One iteration of the forever loop: sample the clock, both axes and the
\* button; behind the gate decide each axis, handle the button, and when
\* _updated stamp the time and run moveServos; then pause(50).
TickUntil(maxTime) ==
    /\ started
    /\ UNCHANGED displaced
    /\ now <= maxTime
    /\ \E xv \in Readings, yv \in Readings, bs \in Levels :
        LET currentTime == now
            gate == GatePasses(currentTime, lastActionTime)
            ax == AxisControl(xAngle, xv, xMaxThresholdMin, xMaxThresholdMax,
                              xMinThreshold)
            ay == AxisControl(yAngle, yv, yMaxThresholdMin, yMaxThresholdMax,
                              yMinThreshold)
            m0 == [CurrentMachine EXCEPT !.x = ax.angle, !.y = ay.angle]
            m1 == ButtonControl(bs, m0, buttonPressedHandler, angleChangedHandler)
            upd == ax.updated \/ ay.updated \/ bs = 0
            m2 == IF upd THEN MoveServos(m1, angleChangedHandler) ELSE m1
        IN  /\ now' = now + IdleDelay
            /\ IF gate
               THEN /\ op' = Op("tick", <<xv, yv, bs>>, currentTime)
                    /\ Commit(m2)
                    /\ updated' = upd
                    /\ lastActionTime' = IF upd THEN currentTime ELSE lastActionTime
                    /\ stepped' = <<ax.angle, ay.angle>>
                    /\ pending' = (pending /\ ~upd)
                    /\ scn' = ScenarioNext(xv, yv, bs)
                    /\ held' = IF bs = 0 THEN MathMin(held + 1, HeldCap) ELSE 0
               ELSE /\ op' = Op("tick", <<0, 0, bs>>, currentTime)
                    /\ Commit(CurrentMachine)
                    /\ stepped' = <<xAngle, yAngle>>
                    /\ UNCHANGED <<updated, lastActionTime, pending, scn, held>>
    /\ pre' = Snapshot
    /\ UNCHANGED <<limitVars, thresholdVars, handlerVars, started, settling, calls>>

Tick == TickUntil(MaxTime)

LoopTick == TickUntil(MaxLoopTime)

Next ==
    \/ init
    \/ initResume
    \/ setServoLimits
    \/ setJoystickThresholds
    \/ onButtonPressed
    \/ onAngleChanged
    \/ setServoAngles
    \/ resetServos
    \/ Tick

Spec == Init /\ [][Next]_vars

\* The program that calls init and then only lets the loop run.
NextLoop ==
    \/ init
    \/ initResume
    \/ LoopTick

SpecLoop == Init /\ [][NextLoop]_vars

\* The program that sets its limits, calls init and then leaves the joystick
\* to the loop with the button released: each sample is a low (200), a resting
\* (500) or an in-band (770) reading, and at most one axis is off its rest.
HoldReadings == {200, 500, 770}
HoldTick ==
    /\ TickUntil(MaxHoldTime)
    /\ op'.args[3] = 1
    /\ op'.args[1] \in HoldReadings \cup {0}
    /\ op'.args[2] \in HoldReadings \cup {0}
    /\ op'.args[1] \in {0, 500} \/ op'.args[2] \in {0, 500}

HoldLimits == ~started /\ setServoLimits

NextHold ==
    \/ init
    \/ initResume
    \/ HoldLimits
    \/ HoldTick

\* Scheduling: the start-up code runs init and init resumes from its pause;
\* the forever loop is rescheduled after every pause(50), so the clock read by
\* the next iteration has advanced.
Boot == init \/ initResume
Advance == started /\ now <= MaxHoldTime /\ now' = now + IdleDelay

SpecHold == Init /\ [][NextHold]_vars /\ WF_vars(Boot) /\ WF_now(Advance)

\* ========================================================== observations
\* What the history variables say about the last operation.
IsTick == op.name = "tick"
\* The last operation was a tick that found more than 100 ms since the last
\* action.
TickPassedGate == IsTick /\ op.t - pre.lastActionTime > 100
ButtonReleased == op.args[3] = 1
ButtonPressed == op.args[3] = 0
\* The tick's X (Y) sample lies in the increase band (low, high].
XInBand == op.args[1] > xMaxThresholdMin /\ op.args[1] <= xMaxThresholdMax
YInBand == op.args[2] > yMaxThresholdMin /\ op.args[2] <= yMaxThresholdMax
XBelowMin == op.args[1] < xMinThreshold
YBelowMin == op.args[2] < yMinThreshold
\* The servo writes of the last operation to one axis, in order.
WritesTo(axis) == SelectSeq(writes, LAMBDA w : w[1] = axis)
\* The last operation ran an actuation pass (moveServos).
RanPass ==
    \/ op.name \in {"setServoAngles", "resetServos"}
    \/ TickPassedGate /\ updated
Increased(angle) ==
    IF angle + servoStep < servoMaxAngle THEN angle + servoStep ELSE servoMaxAngle
Decreased(angle) ==
    IF angle - servoStep > servoMinAngle THEN angle - servoStep ELSE servoMinAngle

\* ================================================================== claims
\* C1: with valid limits (min <= init <= max, step > 0), after any sequence
\* of init, setServoLimits, setServoAngles, resetServos and ticks, the current
\* angle of each axis lies within [servoMinAngle, servoMaxAngle]; an increase
\* at servoMaxAngle stays at servoMaxAngle.
C1_AnglesWithinLimits ==
    /\ servoMinAngle <= xAngle /\ xAngle <= servoMaxAngle
    /\ servoMinAngle <= yAngle /\ yAngle <= servoMaxAngle

\* A gate-passing tick read X in its increase band with X already at the
\* maximum, and X is still at the maximum.
C1_Witness ==
    /\ TickPassedGate /\ XInBand /\ ButtonReleased
    /\ pre.x = servoMaxAngle
    /\ xAngle = servoMaxAngle

\* C2: on a gate-passing tick, a sample r with lowBand < r <= highBand makes
\* the decision phase set that axis's angle to min(prev + step, servoMaxAngle)
\* (and that is the angle at the end of the tick when the button is released).
C2_IncreaseInBand ==
    TickPassedGate =>
        /\ XInBand => /\ stepped[1] = Increased(pre.x)
                      /\ ButtonReleased => xAngle = Increased(pre.x)
        /\ YInBand => /\ stepped[2] = Increased(pre.y)
                      /\ ButtonReleased => yAngle = Increased(pre.y)

\* An in-band X sample stepped X from below the maximum onto the clamp.
C2_Witness ==
    /\ TickPassedGate /\ XInBand /\ ButtonReleased
    /\ pre.x < servoMaxAngle
    /\ pre.x + servoStep > servoMaxAngle
    /\ xAngle = servoMaxAngle

\* C3 as stated: on a gate-passing tick every sample r < minThreshold makes
\* the decision phase set the angle to max(prev - step, servoMinAngle),
\* whatever the relation between minThreshold and the band.
C3_Original ==
    TickPassedGate =>
        /\ XBelowMin => stepped[1] = Decreased(pre.x)
        /\ YBelowMin => stepped[2] = Decreased(pre.y)

\* C3 amended: on a gate-passing tick every sample r < minThreshold that is
\* not inside the increase band (lowBand, highBand] makes the decision phase
\* set the angle to max(prev - step, servoMinAngle); the band is tested first.
C3_DecreaseOutsideBand ==
    TickPassedGate =>
        /\ XBelowMin /\ ~XInBand =>
              /\ stepped[1] = Decreased(pre.x)
              /\ ButtonReleased => xAngle = Decreased(pre.x)
        /\ YBelowMin /\ ~YInBand =>
              /\ stepped[2] = Decreased(pre.y)
              /\ ButtonReleased => yAngle = Decreased(pre.y)

\* A Y sample below the minimum threshold stepped Y down onto the lower clamp.
C3_Witness ==
    /\ TickPassedGate /\ YBelowMin /\ ~YInBand /\ ButtonReleased
    /\ pre.y > servoMinAngle
    /\ pre.y - servoStep < servoMinAngle
    /\ yAngle = servoMinAngle

\* C4 as stated: on a gate-passing tick with the button released every sample
\* r with minThreshold <= r <= lowBand or r > highBand leaves the angle
\* unchanged.
C4_Original ==
    TickPassedGate /\ ButtonReleased =>
        /\ (xMinThreshold <= op.args[1] /\ op.args[1] <= xMaxThresholdMin)
             \/ op.args[1] > xMaxThresholdMax
           => xAngle = pre.x
        /\ (yMinThreshold <= op.args[2] /\ op.args[2] <= yMaxThresholdMin)
             \/ op.args[2] > yMaxThresholdMax
           => yAngle = pre.y

\* C4 amended: on a gate-passing tick with the button released every sample
\* r with minThreshold <= r <= lowBand, or with r > highBand and
\* r >= minThreshold, leaves that axis's angle unchanged, whatever the other
\* axis read.
C4_DeadZoneUnchanged ==
    TickPassedGate /\ ButtonReleased =>
        /\ ~XInBand /\ ~XBelowMin => xAngle = pre.x /\ stepped[1] = pre.x
        /\ ~YInBand /\ ~YBelowMin => yAngle = pre.y /\ stepped[2] = pre.y

\* X read a dead-zone sample above its band and kept its angle while the Y
\* sample moved Y on the same tick.
C4_Witness ==
    /\ TickPassedGate /\ ButtonReleased
    /\ op.args[1] > xMaxThresholdMax /\ ~XBelowMin
    /\ xAngle = pre.x
    /\ yAngle # pre.y

\* C5: with no button handler registered, every gate-passing tick that reads
\* the button pressed ends with both angles at servoInitAngle, whatever the
\* joystick samples; it repeats on every such tick while the button is held.
C5_DefaultRecentre ==
    TickPassedGate /\ ButtonPressed /\ buttonPressedHandler = None =>
        /\ xAngle = servoInitAngle
        /\ yAngle = servoInitAngle

\* The second gate-passing tick in a row that read the button pressed, with
\* samples that had stepped both axes away from the centre.
C5_Witness ==
    /\ TickPassedGate /\ ButtonPressed /\ buttonPressedHandler = None
    /\ held >= 2
    /\ stepped[1] # servoInitAngle /\ stepped[2] # servoInitAngle
    /\ xAngle = servoInitAngle /\ yAngle = servoInitAngle

\* C6 as stated: on every tick and for each axis a servo write is issued
\* during the tick if and only if the axis's current angle after the decision
\* phase differs from its committed angle, also on ticks that follow
\* setServoLimits and on ticks that fail the gate or take no action.
C6_Original ==
    IsTick =>
        /\ (WritesTo("X") # <<>>) <=> (xAngle # pre.lastX)
        /\ (WritesTo("Y") # <<>>) <=> (yAngle # pre.lastY)

\* C6 amended: on every tick and for each axis a servo write is issued if and
\* only if the tick passes the gate, sets _updated (an axis sample was in its
\* increase band or below its minimum threshold, or the button read pressed)
\* and the axis's current angle after the decision phase differs from its
\* committed angle; it is then a single write of the current angle.  A tick
\* that fails the gate or takes no action writes nothing, even when the two
\* angles differ after setServoLimits.
C6_WriteIffActedAndChanged ==
    IsTick =>
        /\ WritesTo("X") = IF TickPassedGate /\ updated /\ xAngle # pre.lastX
                           THEN << <<"X", xAngle>> >> ELSE <<>>
        /\ WritesTo("Y") = IF TickPassedGate /\ updated /\ yAngle # pre.lastY
                           THEN << <<"Y", yAngle>> >> ELSE <<>>

\* A gate-passing tick after setServoLimits wrote X, whose committed angle
\* differed, and not Y, whose committed angle was already current.
C6_Witness ==
    /\ TickPassedGate /\ updated /\ pre.pending
    /\ xAngle # pre.lastX /\ yAngle = pre.lastY
    /\ writes = << <<"X", xAngle>> >>

\* What setServoLimits itself does: the four limits are overwritten, both
\* current angles become init, nothing is written and the committed angles
\* and the action timestamp stay.
C7_LimitsFrame ==
    op.name = "setServoLimits" =>
        /\ <<servoMinAngle, servoMaxAngle, servoInitAngle, servoStep>> = op.args
        /\ xAngle = servoInitAngle /\ yAngle = servoInitAngle
        /\ writes = <<>>
        /\ lastXAngle = pre.lastX /\ lastYAngle = pre.lastY
        /\ lastActionTime = pre.lastActionTime

\* C7 as stated: setServoLimits overwrites the limits, sets both current
\* angles to init, writes nothing and leaves the committed angles and the
\* timestamp; the next actuation pass writes init to each axis whose
\* committed angle differs from init.
C7_Original ==
    /\ C7_LimitsFrame
    /\ RanPass /\ pre.pending =>
          /\ pre.lastX # servoInitAngle => WritesTo("X") = << <<"X", servoInitAngle>> >>
          /\ pre.lastY # servoInitAngle => WritesTo("Y") = << <<"Y", servoInitAngle>> >>

\* C7 amended: as stated for setServoLimits itself; the next actuation pass
\* writes init to each axis whose committed angle differs from init provided
\* that axis's current angle is still init when the pass runs.  A tick that
\* steps the axis, or setServoAngles, changes the current angle first, and the
\* pass then writes that angle, or nothing when it equals the committed one.
C7_LimitsThenPass ==
    /\ C7_LimitsFrame
    /\ RanPass /\ pre.pending =>
          /\ WritesTo("X") = IF xAngle # pre.lastX THEN << <<"X", xAngle>> >> ELSE <<>>
          /\ WritesTo("Y") = IF yAngle # pre.lastY THEN << <<"Y", yAngle>> >> ELSE <<>>
          /\ xAngle = servoInitAngle /\ pre.lastX # servoInitAngle
                => WritesTo("X") = << <<"X", servoInitAngle>> >>
          /\ yAngle = servoInitAngle /\ pre.lastY # servoInitAngle
                => WritesTo("Y") = << <<"Y", servoInitAngle>> >>

\* resetServos ran the first pass after a setServoLimits that moved the
\* centre, and wrote the new init to both servos.
C7_Witness ==
    /\ op.name = "resetServos" /\ pre.pending /\ started
    /\ pre.lastX # servoInitAngle /\ pre.lastY # servoInitAngle
    /\ writes = << <<"X", servoInitAngle>>, <<"Y", servoInitAngle>> >>

\* C8: from the initialised state with limits 0/180/90/15 and X thresholds
\* 760/780/250, three gate-passing ticks in a row reading X = 770, 770, 200
\* (Y in its dead zone, button released) take X through 90, 105, 120, 105,
\* each with one X write and no Y write.
C8_Scenario ==
    /\ scn = 0 => xAngle = 90 /\ yAngle = 90
    /\ scn = 1 => xAngle = 105 /\ yAngle = 90
    /\ scn = 2 => xAngle = 120 /\ yAngle = 90
    /\ scn = 3 => xAngle = 105 /\ yAngle = 90
    /\ scn \in 1..3 /\ TickPassedGate => writes = << <<"X", xAngle>> >>
    /\ scn \in 1..3 /\ TickPassedGate => pre.x = IF scn = 2 THEN 105 ELSE IF scn = 1 THEN 90 ELSE 120

\* The third tick of the scenario has just run.
C8_Witness ==
    /\ scn = 3 /\ TickPassedGate
    /\ op.args = <<200, 500, 1>>
    /\ xAngle = 105

\* C9: with the default limits, resetServos right after setServoAngles leaves
\* both angles at 90 and writes 90 exactly once to each axis whose committed
\* angle differed from 90, and nothing to an axis whose committed angle was 90.
C9_ResetAfterSetAngles ==
    /\ op.name = "resetServos"
    /\ pre.setArgs # <<>>
    /\ <<servoMinAngle, servoMaxAngle, servoInitAngle, servoStep>> = DefaultLimits
    => /\ xAngle = 90 /\ yAngle = 90
       /\ WritesTo("X") = IF pre.lastX # 90 THEN << <<"X", 90>> >> ELSE <<>>
       /\ WritesTo("Y") = IF pre.lastY # 90 THEN << <<"Y", 90>> >> ELSE <<>>
       /\ Len(writes) = Len(WritesTo("X")) + Len(WritesTo("Y"))

\* resetServos ran right after setServoAngles(170, 10) had committed 170 and
\* 10, and wrote 90 to both servos.
C9_Witness ==
    /\ op.name = "resetServos"
    /\ pre.setArgs = <<170, 10>>
    /\ <<pre.x, pre.y, pre.lastX, pre.lastY>> = <<170, 10, 170, 10>>
    /\ <<servoMinAngle, servoMaxAngle, servoInitAngle>> = <<0, 180, 90>>
    /\ xAngle = 90 /\ yAngle = 90
    /\ writes = << <<"X", 90>>, <<"Y", 90>> >>

\* C10: when an angle-change handler is registered and an actuation pass
\* changes the angle written to at least one servo, the handler is invoked in
\* that pass with the current X and Y angles.
C10_AngleHandlerInvoked ==
    RanPass /\ angleChangedHandler # None /\ writes # <<>> =>
        \E i \in 1..Len(fired) :
            fired[i] = <<"angle", angleChangedHandler, xAngle, yAngle>>

\* The invocations of button handlers among those of the last operation.
ButtonFired == SelectSeq(fired, LAMBDA f : f[1] = "button")

\* C11: while a button handler is registered, every gate-passing tick that
\* reads the button pressed invokes it exactly once, does not apply the
\* default re-centring (with a handler that touches nothing the angles are the
\* ones the axis decisions left), stamps _lastActionTime with the tick's time
\* and runs the actuation pass; a tick that fails the gate or reads the button
\* released invokes no button handler.
C11_HandlerReplacesDefault ==
    IsTick =>
        /\ TickPassedGate /\ ButtonPressed /\ buttonPressedHandler # None =>
              /\ ButtonFired = << <<"button", buttonPressedHandler>> >>
              /\ updated
              /\ lastActionTime = op.t
              /\ lastXAngle = xAngle /\ lastYAngle = yAngle
              /\ WritesTo("X") = IF xAngle # pre.lastX THEN << <<"X", xAngle>> >> ELSE <<>>
              /\ WritesTo("Y") = IF yAngle # pre.lastY THEN << <<"Y", yAngle>> >> ELSE <<>>
              /\ buttonPressedHandler = "hNop" =>
                    xAngle = stepped[1] /\ yAngle = stepped[2]
        /\ ~(TickPassedGate /\ ButtonPressed /\ buttonPressedHandler # None) =>
              ButtonFired = <<>>

\* A gate-passing pressed tick ran a registered handler that touches nothing:
\* X stayed where its in-band sample had stepped it, away from the centre.
C11_Witness ==
    /\ TickPassedGate /\ ButtonPressed
    /\ buttonPressedHandler = "hNop"
    /\ fired = << <<"button", "hNop">> >>
    /\ XInBand
    /\ xAngle # servoInitAngle /\ xAngle # pre.x
    /\ lastActionTime = op.t

\* C12: a tick with now - _lastActionTime <= 100 performs no decision: both
\* current angles, both committed angles and _lastActionTime stay, nothing is
\* written and no handler runs; so the timestamps of two acted ticks differ
\* by more than 100 ms.
C12_GateHoldsBack ==
    IsTick =>
        /\ op.t - pre.lastActionTime <= 100 =>
              /\ xAngle = pre.x /\ yAngle = pre.y
              /\ lastXAngle = pre.lastX /\ lastYAngle = pre.lastY
              /\ lastActionTime = pre.lastActionTime
              /\ writes = <<>>
              /\ fired = <<>>
        /\ lastActionTime # pre.lastActionTime =>
              /\ lastActionTime = op.t
              /\ lastActionTime - pre.lastActionTime > 100

\* A tick exactly 100 ms after the last action read the button pressed while
\* a current angle differed from its committed angle, and did nothing.
C12_Witness ==
    /\ IsTick /\ ButtonPressed
    /\ pre.lastActionTime > 0
    /\ op.t - pre.lastActionTime = 100
    /\ xAngle # lastXAngle
    /\ writes = <<>> /\ fired = <<>>
    /\ lastActionTime = pre.lastActionTime

\* C13: init sets both current and both committed angles to _servoInitAngle
\* and writes _servoInitAngle to the X servo and then, after its pause, to the
\* Y servo, whether or not the angles changed; the loop starts only after the
\* Y write, so no tick runs between or before the two writes.
C13_InitWritesThenLoop ==
    /\ op.name = "init" =>
          /\ <<xAngle, yAngle, lastXAngle, lastYAngle>>
                = <<servoInitAngle, servoInitAngle, servoInitAngle, servoInitAngle>>
          /\ writes = << <<"X", servoInitAngle>> >>
          /\ settling /\ ~started
    /\ settling => op.name = "init"
    /\ op.name = "initResume" =>
          /\ <<xAngle, yAngle, lastXAngle, lastYAngle>>
                = <<servoInitAngle, servoInitAngle, servoInitAngle, servoInitAngle>>
          /\ writes = << <<"Y", servoInitAngle>> >>
          /\ servo = [X |-> servoInitAngle, Y |-> servoInitAngle]
          /\ started /\ ~settling
    /\ IsTick => started /\ ~settling
    /\ ~started => now = BootTime

\* init resumed from its pause and wrote the Y servo although the committed
\* Y angle already equalled the current one, with a centre other than 90.
C13_Witness ==
    /\ op.name = "initResume"
    /\ servoInitAngle # 90
    /\ pre.lastY = pre.y
    /\ writes = << <<"Y", servoInitAngle>> >>
    /\ started

\* C14: each event kind has one handler slot. Registering puts the new
\* handler in its slot whatever the slot held, and changes nothing else (the
\* other slot, the angles, the committed angles, _lastActionTime, the servos);
\* a tick invokes only the handler its slot holds now, never the one a later
\* registration displaced.
C14_SingleHandlerSlot ==
    /\ op.name = "onButtonPressed" =>
          /\ buttonPressedHandler = op.args[1]
          /\ displaced.button = pre.slots[1]
          /\ angleChangedHandler = pre.slots[2]
    /\ op.name = "onAngleChanged" =>
          /\ angleChangedHandler = op.args[1]
          /\ displaced.angle = pre.slots[2]
          /\ buttonPressedHandler = pre.slots[1]
    /\ op.name \in {"onButtonPressed", "onAngleChanged"} =>
          /\ <<xAngle, yAngle, lastXAngle, lastYAngle>>
                = <<pre.x, pre.y, pre.lastX, pre.lastY>>
          /\ lastActionTime = pre.lastActionTime
          /\ pending = pre.pending
          /\ writes = <<>> /\ fired = <<>>
    /\ \A i \in DOMAIN fired :
          /\ fired[i][1] = "button" => fired[i][2] = buttonPressedHandler
          /\ fired[i][1] = "angle" => fired[i][2] = angleChangedHandler
    /\ TickPassedGate /\ ButtonPressed /\ buttonPressedHandler # None =>
          ButtonFired = << <<"button", buttonPressedHandler>> >>

\* hReset was registered and then displaced by hNop; a gate-passing pressed
\* tick invoked hNop only.
C14_Witness ==
    /\ TickPassedGate /\ ButtonPressed
    /\ displaced.button = "hReset"
    /\ buttonPressedHandler = "hNop"
    /\ fired = << <<"button", "hNop">> >>

\* C15: in every actuation pass, for each axis on its own, the servo is
\* written with the current angle exactly when the current angle differs from
\* the committed angle at the start of the pass, and after the pass the
\* committed angle equals the current angle on both axes; so setServoAngles
\* called again with the same arguments writes nothing.
C15_PassWritesDifferences ==
    /\ RanPass =>
          /\ WritesTo("X") = IF xAngle # pre.lastX THEN << <<"X", xAngle>> >> ELSE <<>>
          /\ WritesTo("Y") = IF yAngle # pre.lastY THEN << <<"Y", yAngle>> >> ELSE <<>>
          /\ Len(writes) = Len(WritesTo("X")) + Len(WritesTo("Y"))
          /\ lastXAngle = xAngle /\ lastYAngle = yAngle
          /\ xAngle # pre.lastX => servo.X = xAngle
          /\ yAngle # pre.lastY => servo.Y = yAngle
    /\ op.name = "setServoAngles" /\ pre.setArgs = op.args => writes = <<>>

\* setServoAngles ran twice in a row with the same arguments, which had moved
\* one servo only the first time: the second pass wrote nothing.
C15_Witness ==
    /\ op.name = "setServoAngles" /\ pre.setArgs = op.args
    /\ started
    /\ xAngle = servoInitAngle /\ yAngle # servoInitAngle
    /\ servo.Y = yAngle
    /\ writes = <<>>

\* The invocations of angle-change handlers among those of the last operation.
AngleFired == SelectSeq(fired, LAMBDA f : f[1] = "angle")

C17_ActedIffChanged ==
    TickPassedGate =>
        LET changed == stepped[1] # pre.x \/ stepped[2] # pre.y
            acted == updated /\ lastActionTime = op.t
        IN  /\ acted <=> (changed \/ ButtonPressed)
            /\ ~acted => lastActionTime = pre.lastActionTime

\* C18: in every state after init has completed, the committed angle of each
\* axis is the angle most recently written to that axis's servo; ticks,
\* setServoLimits, setServoAngles and resetServos change a committed angle
\* only together with a write of that angle to its servo, and write a servo
\* only together with that change.
C18_CommittedIsLastWritten ==
    started =>
        /\ servo.X = lastXAngle
        /\ servo.Y = lastYAngle
        /\ op.name # "initResume" =>
              /\ WritesTo("X") = IF lastXAngle # pre.lastX
                                 THEN << <<"X", lastXAngle>> >> ELSE <<>>
              /\ WritesTo("Y") = IF lastYAngle # pre.lastY
                                 THEN << <<"Y", lastYAngle>> >> ELSE <<>>

\* After init, setServoLimits moved the current angles without a write: the
\* committed angles stayed at what the servos were last sent.
C18_Witness ==
    /\ started
    /\ op.name = "setServoLimits"
    /\ xAngle # lastXAngle /\ yAngle # lastYAngle
    /\ servo = [X |-> lastXAngle, Y |-> lastYAngle]
    /\ writes = <<>>

\* C19: when ticks are scheduled fairly and time advances, limits are valid,
\* no setter is called after init and the button stays released, an axis whose
\* every acted-on reading lies in its increase band eventually has its angle
\* at _servoMaxAngle for good, with no further write to its servo; an axis
\* whose every acted-on reading is below its minimum threshold and outside
\* the band likewise ends at _servoMinAngle.
C19_HeldReadingReachesLimit ==
    /\ [](TickPassedGate => ButtonReleased /\ XInBand)
          => <>[](xAngle = servoMaxAngle /\ WritesTo("X") = <<>>)
    /\ [](TickPassedGate => ButtonReleased /\ XBelowMin /\ ~XInBand)
          => <>[](xAngle = servoMinAngle /\ WritesTo("X") = <<>>)
    /\ [](TickPassedGate => ButtonReleased /\ YInBand)
          => <>[](yAngle = servoMaxAngle /\ WritesTo("Y") = <<>>)
    /\ [](TickPassedGate => ButtonReleased /\ YBelowMin /\ ~YInBand)
          => <>[](yAngle = servoMinAngle /\ WritesTo("Y") = <<>>)

\* With the default limits, X climbed from 90 to 180 on six in-band ticks and
\* a seventh in-band tick left it at 180 without a write.
C19_Witness ==
    /\ <<servoMinAngle, servoMaxAngle, servoInitAngle, servoStep>> = DefaultLimits
    /\ TickPassedGate /\ ButtonReleased /\ XInBand
    /\ op.t >= BootTime + SettleDelay + 6 * (GateInterval + IdleDelay)
    /\ pre.x = servoMaxAngle /\ xAngle = servoMaxAngle
    /\ WritesTo("X") = <<>>

====
